---- MODULE Spec2Model ----
(***************************************************************************)
(* FileScannerApp: the scanner service (services/file_scanner.py), its     *)
(* three worker threads (workers/*.py) and the part of the main window     *)
(* that coordinates them (views/main_window.py), as one state machine.     *)
(*                                                                         *)
(* Threads: the UI thread (handlers of MainWindow, one at a time, and the  *)
(* delivery of queued signals) and one thread per started worker.  A       *)
(* worker step holds at most one access to shared memory (scanner.stopped  *)
(* or a FileItem field); signals emitted by a worker are queued to the UI  *)
(* thread in emission order.  The last step of run() emits `finished' and  *)
(* ends the thread.                                                        *)
(***************************************************************************)
EXTENDS Integers, Sequences, FiniteSets, TLC

VARIABLES
    fsys,            \* the source file system: root path -> directory listing
    dstfs,           \* the backup destination: base name -> files written
    stopped,         \* FileScanner.stopped
    items,           \* the FileItem objects (heap): id -> fields
    table,           \* FileTableModel._data: sequence of FileItem ids
    workers,         \* the QThread workers created so far: id -> state
    nstarted,        \* number of workers created so far
    current_worker,  \* MainWindow._current_worker (0 is None)
    ui,              \* what the UI thread is doing (idle, or blocked in wait())
    queue,           \* signals queued to the UI thread
    view             \* the widgets: two of the buttons, the text of a size cell

vars == <<fsys, dstfs, stopped, items, table, workers, nstarted,
          current_worker, ui, queue, view>>

----------------------------------------------------------------------------
(* Bounds *)

MaxWorkers == 3      \* workers started in one behaviour
MaxNodes == 3        \* directories of a drawn tree

(* Program constants *)

ChunkSize == 8192    \* _copy_with_progress reads 8192 bytes at a time

(* Python's None in an Optional[int] field *)
None == -1

(* FileItem.status: "未计算", "已计算", "已取消", "计算错误" *)
NotComputed == "NotComputed"
Computed == "Computed"
Cancelled == "Cancelled"
Error == "Error"

----------------------------------------------------------------------------
(* The file system.  A directory node is [kind, files, dirs]: kind "dir",  *)
(* "dirlink" (a symbolic link to a directory, files being the target's)    *)
(* or "bad" (a directory at which os.walk raises something other than      *)
(* OSError).  A file node is [kind, size, lsize]: "reg" (size bytes),      *)
(* "link" (a symbolic link to a file of size bytes, the link itself lsize  *)
(* bytes) or "nostat" (os.stat fails on it).                               *)

Reg(n) == [kind |-> "reg", size |-> n, lsize |-> n]
Link(n, l) == [kind |-> "link", size |-> n, lsize |-> l]
NoStat == [kind |-> "nostat", size |-> 0, lsize |-> 0]

Dir(fs, ds) == [kind |-> "dir", files |-> fs, dirs |-> ds]
DirLink(fs) == [kind |-> "dirlink", files |-> fs, dirs |-> <<>>]
BadDir == [kind |-> "bad", files |-> <<>>, dirs |-> <<>>]

(* One os.scandir entry of a root: a child directory (with its tree) or a  *)
(* plain file.                                                             *)
DirEntry(n, t) == [name |-> n, tree |-> t]
FileEntry(n) == [name |-> n, tree |-> [kind |-> "file", files |-> <<>>, dirs |-> <<>>]]

IsDir(e) == e.tree.kind # "file"

FixedFS ==
    [r \in {"A", "B"} |->
        IF r = "A"
        THEN << FileEntry("x"), DirEntry("a1", Dir(<<Reg(3)>>, <<>>)) >>
        ELSE << DirEntry("b1", Dir(<<Reg(7)>>, << BadDir >>)) >>]

Names == {"a1", "a2", "x", "b1", "t"}

(* The directory trees of at most MaxNodes directories. *)
FileLists == { <<>>, <<Reg(3)>>, <<Reg(2), Link(4, 1)>>, <<NoStat, Reg(1)>> }

RECURSIVE TreesOf(_), ForestsOf(_)
TreesOf(n) ==
    IF n = 1
    THEN {Dir(fl, <<>>) : fl \in FileLists} \cup {DirLink(<<Reg(1)>>), BadDir}
    ELSE {Dir(fl, ds) : fl \in FileLists, ds \in ForestsOf(n - 1)}

ForestsOf(m) ==
    IF m = 0 THEN { <<>> }
    ELSE UNION { {<<t>> \o rest : t \in TreesOf(k), rest \in ForestsOf(m - k)} :
                 k \in 1..m }

Trees == UNION {TreesOf(n) : n \in 1..MaxNodes}

DrawnFS(t) ==
    [r \in {"A"} |-> << DirEntry("t", t), DirEntry("a2", Dir(<<Reg(5)>>, <<>>)) >>]

RECURSIVE Lookup(_, _)
Lookup(listing, name) ==
    IF listing = <<>> THEN BadDir
    ELSE IF Head(listing).name = name THEN Head(listing).tree
    ELSE Lookup(Tail(listing), name)

(* The tree at a FileItem's path. *)
TreeAt(fs, path) == Lookup(fs[path[1]], path[2])

(* os.walk(top), top-down, symbolic links to directories not followed: the *)
(* sequence of (root, dirs, files) it yields, as [raises, files].          *)
RECURSIVE Walk(_), WalkAll(_)
Walk(t) ==
    IF t.kind = "bad" THEN << [raises |-> TRUE, files |-> <<>>] >>
    ELSE << [raises |-> FALSE, files |-> t.files] >> \o WalkAll(t.dirs)

WalkAll(ds) ==
    IF ds = <<>> THEN <<>>
    ELSE (IF Head(ds).kind = "dirlink" THEN <<>> ELSE Walk(Head(ds)))
         \o WalkAll(Tail(ds))

(* os.path.getsize follows symbolic links. *)
GetSizeFails(f) == f.kind = "nostat"
GetSize(f) == f.size

----------------------------------------------------------------------------
(* FileItem objects *)

(* FileItem.size is an unbounded integer; here it is size * 1024^scale,    *)
(* where scale is 0 for every size the aggregator writes and is drawn only *)
(* where sizes of 1024^4 and more are formatted.                           *)
NewItem(root, name) ==
    [name |-> name, path |-> <<root, name>>, size |-> None, scale |-> 0,
     file_count |-> 0, status |-> NotComputed, checked |-> FALSE]

NoItem ==
    [name |-> "", path |-> <<>>, size |-> None, scale |-> 0, file_count |-> None,
     status |-> "free", checked |-> FALSE]

HeapSize == 2 * MaxWorkers + 1
ItemIds == 1..HeapSize

Live(i) == items[i].status # "free"

(* Signals queued to the UI thread. *)
Ev(sig, w, item, ok, cur, tot, speed, nbytes) ==
    [sig |-> sig, w |-> w, item |-> item, ok |-> ok, cur |-> cur, tot |-> tot,
     speed |-> speed, nbytes |-> nbytes]

SeqRange(s) == {s[k] : k \in 1..Len(s)}

(* Workers.  Two fields are history: stop_req (a stop was requested while  *)
(* the thread ran) and stop_seen (the batch position at which a calculate  *)
(* thread first read stopped = True, 0 before).                            *)
WorkerIds == 1..MaxWorkers

NoWorker ==
    [kind |-> "none", st |-> "none", pc |-> "none", path |-> "", batch |-> <<>>,
     srcs |-> <<>>, dest |-> "", i |-> 0, d |-> 0, f |-> 0, cur |-> 0,
     total_size |-> 0, file_count |-> 0, copied |-> 0,
     errors |-> FALSE, stop_req |-> FALSE, stop_seen |-> 0]

IsRunning(w) == workers[w].st = "running"

(* The FileItem objects something still refers to; the others are freed.  *)
Refs(tbl, wks, q) ==
    SeqRange(tbl)
    \cup UNION {SeqRange(wks[w].batch) : w \in WorkerIds}
    \cup {wks[w].cur : w \in WorkerIds}
    \cup {q[k].item : k \in 1..Len(q)}

Gc(its, tbl, wks, q) ==
    [i \in ItemIds |-> IF i \in Refs(tbl, wks, q) THEN its[i] ELSE NoItem]

FreeId(its) == CHOOSE i \in ItemIds : its[i].status = "free" /\ \A j \in 1..(i-1) : its[j].status # "free"

----------------------------------------------------------------------------
(* Initial state: MainWindow.__init__ (no worker, empty table) and         *)
(* FileScanner.__init__ (stopped = False).                                 *)

Idle == [pc |-> "idle", pending |-> 0]

(* The widgets after construction (_create_toolbar): the select button is  *)
(* enabled and the stop button disabled; no size cell has been painted.    *)
NoText == [whole |-> 0, cents |-> 0, unit |-> ""]
InitView == [select_btn |-> TRUE, stop_btn |-> FALSE, size_text |-> NoText]

(* MainWindow._update_button_states(scanning), for the two buttons whose   *)
(* state depends on `scanning' alone.                                      *)
_update_button_states(scanning) ==
    [view EXCEPT !.select_btn = ~scanning, !.stop_btn = scanning]

Absent == [exists |-> FALSE, files |-> <<>>]
Created(fs) == [exists |-> TRUE, files |-> fs]

InitApp ==
    /\ dstfs = [n \in Names |-> Absent]
    /\ stopped = FALSE
    /\ items = [i \in ItemIds |-> NoItem]
    /\ table = <<>>
    /\ workers = [w \in WorkerIds |-> NoWorker]
    /\ nstarted = 0
    /\ current_worker = 0
    /\ ui = Idle
    /\ queue = <<>>
    /\ view = InitView

Init ==
    /\ fsys = FixedFS
    /\ InitApp

(* What an action leaves of workers, queue, table and the FileItem heap.   *)
Step(wks, q, its, tbl) ==
    /\ workers' = wks
    /\ queue' = q
    /\ table' = tbl
    /\ items' = Gc(its, tbl, wks, q)

----------------------------------------------------------------------------
(* FileItem.format_size.  A float is [m, x], the number m * 1024^x with x  *)
(* of either sign: float(self.size) is exact for the sizes drawn, and a    *)
(* division by 1024 lowers the binary exponent by ten, which is exact too. *)
(* A text "w.cc unit" is [whole, cents, unit].                             *)

units == <<"B", "KB", "MB", "GB", "TB">>

RECURSIVE Pow1024(_)
Pow1024(k) == IF k = 0 THEN 1 ELSE 1024 * Pow1024(k - 1)

Float(m, x) == [m |-> m, x |-> x]

(* size >= 1024 and size > 1024 for a float (m below 2^31, so below 1024^4) *)
AtLeast1024(v) ==
    IF v.x >= 1 THEN v.m >= 1
    ELSE 1 - v.x <= 3 /\ v.m >= Pow1024(1 - v.x)

Above1024(v) ==
    IF v.x >= 2 THEN v.m >= 1
    ELSE IF v.x = 1 THEN v.m > 1
    ELSE 1 - v.x <= 3 /\ v.m > Pow1024(1 - v.x)

(* A variant of the loop condition with > in place of >=. *)
LoopGoesOn_Strict(v, unit_index) ==
    Above1024(v) /\ unit_index < Len(units) - 1

(* while size >= 1024 and unit_index < len(units) - 1 *)
LoopGoesOn(v, unit_index) ==
    AtLeast1024(v) /\ unit_index < Len(units) - 1

(* the loop: size /= 1024; unit_index += 1 *)
RECURSIVE Scaled(_, _)
Scaled(v, unit_index) ==
    IF LoopGoesOn(v, unit_index) THEN Scaled(Float(v.m, v.x - 1), unit_index + 1)
    ELSE [size |-> v, unit_index |-> unit_index]

(* f"{size:.2f}": the decimal with two places nearest to the float, a tie  *)
(* going to the even neighbour; in hundredths.                             *)
Hundredths(m, d) ==
    LET q == (100 * m) \div d
        r == (100 * m) % d
    IN IF 2 * r > d \/ (2 * r = d /\ q % 2 = 1) THEN q + 1 ELSE q

TwoDecimals(v) ==
    IF v.x >= 0 THEN [whole |-> v.m * Pow1024(v.x), cents |-> 0]
    ELSE LET h == Hundredths(v.m, Pow1024(-v.x))
         IN [whole |-> h \div 100, cents |-> h % 100]

(* the text returned for an unset size *)
NotCalculatedText == [whole |-> 0, cents |-> 0, unit |-> "not calculated"]

format_size(item) ==
    IF item.size = None THEN NotCalculatedText
    ELSE LET r == Scaled(Float(item.size, item.scale), 0)
             t == TwoDecimals(r.size)
         IN [whole |-> t.whole, cents |-> t.cents, unit |-> units[r.unit_index + 1]]

(* FileTableModel.data(index, DisplayRole) for the size column of a row,   *)
(* called by the table view when it paints the cell.                       *)
data(row) ==
    /\ ui.pc = "idle"
    /\ row \in 1..Len(table)
    /\ view' = [view EXCEPT !.size_text = format_size(items[table[row]])]
    /\ UNCHANGED <<fsys, dstfs, stopped, items, table, workers, nstarted,
                   current_worker, ui, queue>>

----------------------------------------------------------------------------
(* The UI thread *)

(* MainWindow._start_worker(worker), up to the wait(): QThread.quit() has   *)
(* no effect on a thread that runs no event loop, so a running current     *)
(* worker is only waited for.  The new worker's record with its place in   *)
(* _start_worker.                                                          *)
StartBlocks == current_worker # 0 /\ IsRunning(current_worker)

Submitted(nw) == [nw EXCEPT !.st = IF StartBlocks THEN "new" ELSE "running"]

_start_worker(nw, tbl) ==
    /\ nstarted < MaxWorkers
    /\ nstarted' = nstarted + 1
    /\ Step([workers EXCEPT ![nstarted + 1] = Submitted(nw)], queue, items, tbl)
    /\ ui' = IF StartBlocks THEN [pc |-> "start_wait", pending |-> nstarted + 1] ELSE ui
    /\ current_worker' = IF StartBlocks THEN current_worker ELSE nstarted + 1
    /\ view' = IF StartBlocks THEN view ELSE _update_button_states(TRUE)
    /\ UNCHANGED <<fsys, dstfs, stopped>>

(* _start_worker after wait() has returned: lines 698-709.                 *)
StartResume ==
    /\ ui.pc = "start_wait"
    /\ ~IsRunning(current_worker)
    /\ current_worker' = ui.pending
    /\ workers' = [workers EXCEPT ![ui.pending].st = "running"]
    /\ ui' = Idle
    /\ view' = _update_button_states(TRUE)
    /\ UNCHANGED <<fsys, dstfs, stopped, items, table, nstarted, queue>>

(* The paths a scan can be asked for: the roots of the file system, a path *)
(* that names a regular file and a path that names nothing (a recent       *)
(* directory, or the current one on a rescan, may have become either).     *)
FilePath == "F"
MissingPath == "M"
ScanPaths == DOMAIN fsys \cup {FilePath, MissingPath}

(* os.path.exists(path), and whether os.scandir(path) can list it. *)
Exists(path) == path # MissingPath
IsDirectory(path) == path \in DOMAIN fsys

(* MainWindow._scan_directory(path): a path that does not exist raises     *)
(* FileNotFoundError, shown by show_error; any other path clears the table *)
(* and starts a ScanWorker.                                                *)
_scan_directory(path) ==
    /\ ui.pc = "idle"
    /\ IF ~Exists(path)
       THEN UNCHANGED vars
       ELSE _start_worker([NoWorker EXCEPT !.kind = "scan", !.pc = "begin", !.path = path],
                          <<>>)

CheckedItems == SelectSeq(table, LAMBDA i : items[i].checked)

(* MainWindow.calculate_selected *)
calculate_selected ==
    /\ ui.pc = "idle"
    /\ CheckedItems # <<>>
    /\ _start_worker([NoWorker EXCEPT !.kind = "calc", !.pc = "loop", !.i = 1,
                                      !.batch = CheckedItems],
                     table)

(* MainWindow._calculate_single_item(item), from a row's context menu *)
_calculate_single_item(row) ==
    /\ ui.pc = "idle"
    /\ row \in 1..Len(table)
    /\ _start_worker([NoWorker EXCEPT !.kind = "calc", !.pc = "loop", !.i = 1,
                                      !.batch = <<table[row]>>],
                     table)

PathsOf(ids) == [k \in 1..Len(ids) |-> items[ids[k]].path]

(* MainWindow.backup_directory and _start_backup *)
backup_directory ==
    /\ ui.pc = "idle"
    /\ CheckedItems # <<>>
    /\ _start_worker([NoWorker EXCEPT !.kind = "backup", !.pc = "begin",
                                      !.srcs = PathsOf(CheckedItems)],
                     table)

(* MainWindow._on_select_all_changed(state): the check box of every row,   *)
(* then _update_button_states() with the default scanning=False.           *)
_on_select_all_changed(state) ==
    /\ ui.pc = "idle"
    /\ table # <<>>
    /\ items' = [i \in ItemIds |-> IF i \in SeqRange(table)
                                    THEN [items[i] EXCEPT !.checked = state]
                                    ELSE items[i]]
    /\ view' = _update_button_states(FALSE)
    /\ UNCHANGED <<fsys, dstfs, stopped, table, workers, nstarted, current_worker,
                   ui, queue>>

(* MainWindow.stop_scan up to the wait() *)
StopRequested(wks) ==
    [w \in WorkerIds |-> IF wks[w].st = "running" THEN [wks[w] EXCEPT !.stop_req = TRUE]
                         ELSE wks[w]]

stop_scan ==
    /\ ui.pc = "idle"
    /\ stopped' = TRUE
    /\ workers' = StopRequested(workers)
    /\ ui' = IF StartBlocks THEN [pc |-> "stop_wait", pending |-> 0] ELSE ui
    /\ view' = IF StartBlocks THEN view ELSE _update_button_states(FALSE)
    /\ UNCHANGED <<fsys, dstfs, items, table, nstarted, current_worker, queue>>

(* stop_scan after wait() has returned *)
StopResume ==
    /\ ui.pc = "stop_wait"
    /\ ~IsRunning(current_worker)
    /\ ui' = Idle
    /\ view' = _update_button_states(FALSE)
    /\ UNCHANGED <<fsys, dstfs, stopped, items, table, workers, nstarted,
                   current_worker, queue>>

(* Delivery of the oldest queued signal to its slot: file_found to         *)
(* FileTableModel.add_item, a ScanWorker's finished to _on_scan_finished   *)
(* (which clears _current_worker); each of the three finished slots calls  *)
(* _update_button_states(scanning=False).                                  *)
add_item(tbl, ev) == IF ev.sig = "file_found" THEN Append(tbl, ev.item) ELSE tbl

_on_scan_finished(cw, ev) == IF ev.sig = "scan_finished" THEN 0 ELSE cw

(* MainWindow._update_ui, the slot of the 100 ms _update_timer (started in *)
(* _start_services), on a tick that passes the rate limit of lines         *)
(* 267-271: _update_button_states() with the default scanning=False.  A    *)
(* tick inside the limit returns at once.  The UI thread runs the slot     *)
(* between two handlers, never while it is blocked in wait().              *)
_update_ui ==
    /\ ui.pc = "idle"
    /\ view' = _update_button_states(FALSE)
    /\ UNCHANGED <<fsys, dstfs, stopped, items, table, workers, nstarted,
                   current_worker, ui, queue>>

FinishedSlots == {"scan_finished", "calc_finished", "backup_finished"}

Deliver ==
    /\ ui.pc = "idle"
    /\ queue # <<>>
    /\ Step(workers, Tail(queue), items, add_item(table, Head(queue)))
    /\ current_worker' = _on_scan_finished(current_worker, Head(queue))
    /\ view' = IF Head(queue).sig \in FinishedSlots THEN _update_button_states(FALSE)
                ELSE view
    /\ UNCHANGED <<fsys, dstfs, stopped, nstarted, ui>>

----------------------------------------------------------------------------
(* Worker threads *)

(* run() returns: the thread is no longer running. *)
Finished == [NoWorker EXCEPT !.st = "finished"]

(* The payload of a finished(bool) signal; "none" where a signal has none. *)
Bool(b) == IF b THEN "true" ELSE "false"

(* ScanWorker.run / FileScanner.scan_directory *)

(* A variant of the except branch that emits the error alone. *)
ScanFailed_ErrorOnly(w) == Append(queue, Ev("error", w, 0, "none", 0, 0, 0, 0))

(* ScanWorker.run's except branch: error.emit, finished.emit(False). *)
ScanFailed(w) ==
    queue \o << Ev("error", w, 0, "none", 0, 0, 0, 0),
                Ev("scan_finished", w, 0, "false", 0, 0, 0, 0) >>

(* The generator's first step: stopped = False, os.scandir(path).  When    *)
(* os.scandir raises, scan_directory re-raises (lines 48-50) and run()     *)
(* takes its except branch (scan_worker.py lines 28-31).                   *)
ScanBegin(w) ==
    /\ IsRunning(w) /\ workers[w].kind = "scan" /\ workers[w].pc = "begin"
    /\ stopped' = FALSE
    /\ IF IsDirectory(workers[w].path)
       THEN Step([workers EXCEPT ![w].pc = "gen", ![w].i = 1], queue, items, table)
       ELSE Step([workers EXCEPT ![w] = Finished], ScanFailed(w), items, table)
    /\ UNCHANGED <<fsys, view, dstfs, nstarted, current_worker, ui>>

(* The generator's loop: the stopped check, then the next entry. *)
ScanGen(w) ==
    LET wk == workers[w]
        listing == fsys[wk.path]
        id == FreeId(items)
    IN
    /\ IsRunning(w) /\ wk.kind = "scan" /\ wk.pc = "gen"
    /\ IF wk.i > Len(listing)
       THEN Step([workers EXCEPT ![w] = Finished],
                 Append(queue, Ev("scan_finished", w, 0, Bool(~stopped), 0, 0, 0, 0)),
                 items, table)
       ELSE IF stopped
       THEN Step([workers EXCEPT ![w].pc = "fin"], queue, items, table)
       ELSE IF IsDir(listing[wk.i])
       THEN Step([workers EXCEPT ![w].pc = "yielded", ![w].i = wk.i + 1, ![w].cur = id],
                 queue,
                 [items EXCEPT ![id] = NewItem(wk.path, listing[wk.i].name)],
                 table)
       ELSE Step([workers EXCEPT ![w].i = wk.i + 1], queue, items, table)
    /\ UNCHANGED <<fsys, view, dstfs, stopped, nstarted, current_worker, ui>>

(* ScanWorker.run's loop body: the stopped check, then file_found.emit. *)
ScanYielded(w) ==
    LET wk == workers[w] IN
    /\ IsRunning(w) /\ wk.kind = "scan" /\ wk.pc = "yielded"
    /\ IF stopped
       THEN Step([workers EXCEPT ![w].pc = "fin", ![w].cur = 0], queue, items, table)
       ELSE Step([workers EXCEPT ![w].pc = "gen", ![w].cur = 0],
                 Append(queue, Ev("file_found", w, wk.cur, "none", 0, 0, 0, 0)),
                 items, table)
    /\ UNCHANGED <<fsys, view, dstfs, stopped, nstarted, current_worker, ui>>

(* finished.emit(not self.scanner.stopped) after a break *)
ScanFinish(w) ==
    LET wk == workers[w] IN
    /\ IsRunning(w) /\ wk.kind = "scan" /\ wk.pc = "fin"
    /\ Step([workers EXCEPT ![w] = Finished],
            Append(queue, Ev("scan_finished", w, 0, Bool(~stopped), 0, 0, 0, 0)),
            items, table)
    /\ UNCHANGED <<fsys, view, dstfs, stopped, nstarted, current_worker, ui>>

(* CalculateWorker.run / FileScanner.calculate_directory_info *)

(* The head of run()'s loop: the stopped check, then the call. *)
CalcLoop(w) ==
    LET wk == workers[w] IN
    /\ IsRunning(w) /\ wk.kind = "calc" /\ wk.pc = "loop"
    /\ IF wk.i > Len(wk.batch) \/ stopped
       THEN Step([workers EXCEPT ![w] = Finished],
                 Append(queue, Ev("calc_finished", w, 0, "none", 0, 0, 0, 0)),
                 items, table)
       ELSE Step([workers EXCEPT ![w].pc = "walk", ![w].d = 1, ![w].f = 1,
                                 ![w].total_size = 0, ![w].file_count = 0],
                 queue, items, table)
    /\ UNCHANGED <<fsys, view, dstfs, stopped, nstarted, current_worker, ui>>

(* A variant that numbers the entries from zero. *)
CalcProgress_ZeroBased(w, wk) ==
    Append(queue, Ev("calc_progress", w, wk.batch[wk.i], "none", wk.i - 1, Len(wk.batch), 0, 0))

CalcProgress(w, wk) ==
    Append(queue, Ev("calc_progress", w, wk.batch[wk.i], "none", wk.i, Len(wk.batch), 0, 0))

NextEntry(wk) ==
    [wk EXCEPT !.pc = "loop", !.i = wk.i + 1, !.d = 0, !.f = 0, !.total_size = 0,
               !.file_count = 0]

SeenAt(wk) == IF wk.stop_seen = 0 THEN wk.i ELSE wk.stop_seen

(* The head of the os.walk loop: the next directory, then the stopped      *)
(* check.  An exception leaves through the outer handler (lines 87-90).    *)
CalcWalk(w) ==
    LET wk == workers[w]
        id == wk.batch[wk.i]
        wlk == Walk(TreeAt(fsys, items[id].path))
    IN
    /\ IsRunning(w) /\ wk.kind = "calc" /\ wk.pc = "walk"
    /\ IF wk.d > Len(wlk)
       THEN Step([workers EXCEPT ![w].pc = "wsize", ![w].d = 0, ![w].f = 0],
                 queue, items, table)
       ELSE IF wlk[wk.d].raises
       THEN Step([workers EXCEPT ![w] = NextEntry(wk)], CalcProgress(w, wk),
                 [items EXCEPT ![id].status = Error], table)
       ELSE IF stopped
       THEN Step([workers EXCEPT ![w].pc = "wsize", ![w].d = 0, ![w].f = 0,
                                 ![w].stop_seen = SeenAt(wk)],
                 queue, items, table)
       ELSE IF wlk[wk.d].files = <<>>
       THEN Step([workers EXCEPT ![w].d = wk.d + 1], queue, items, table)
       ELSE Step([workers EXCEPT ![w].pc = "file", ![w].f = 1], queue, items, table)
    /\ UNCHANGED <<fsys, view, dstfs, stopped, nstarted, current_worker, ui>>

(* A variant that counts a file before asking for its size. *)
Counted_CountsUnreadable(wk, file) ==
    [wk EXCEPT !.total_size = wk.total_size + (IF GetSizeFails(file) THEN 0 ELSE GetSize(file)),
               !.file_count = wk.file_count + 1]

(* One file of the inner loop: the stopped check, then os.path.getsize. *)
Counted(wk, file) ==
    IF GetSizeFails(file) THEN wk
    ELSE [wk EXCEPT !.total_size = wk.total_size + GetSize(file),
                    !.file_count = wk.file_count + 1]

(* A variant that leaves the walk after the files of one directory. *)
AfterFile_OneLevel(wk, nfiles) ==
    IF wk.f = nfiles THEN [wk EXCEPT !.pc = "wsize", !.d = 0, !.f = 0]
    ELSE [wk EXCEPT !.f = wk.f + 1]

(* The end of the inner loop's body: the next file, or the next directory. *)
AfterFile(wk, nfiles) ==
    IF wk.f = nfiles THEN [wk EXCEPT !.pc = "walk", !.d = wk.d + 1, !.f = 1]
    ELSE [wk EXCEPT !.f = wk.f + 1]

CalcFile(w) ==
    LET wk == workers[w]
        id == wk.batch[wk.i]
        files == Walk(TreeAt(fsys, items[id].path))[wk.d].files
    IN
    /\ IsRunning(w) /\ wk.kind = "calc" /\ wk.pc = "file"
    /\ IF stopped
       THEN workers' = [workers EXCEPT ![w].pc = "walk", ![w].d = wk.d + 1, ![w].f = 1,
                                       ![w].stop_seen = SeenAt(wk)]
       ELSE workers' = [workers EXCEPT ![w] = AfterFile(Counted(wk, files[wk.f]), Len(files))]
    /\ UNCHANGED <<fsys, view, dstfs, stopped, items, table, nstarted, current_worker, ui, queue>>

(* A variant that assigns the status where line 81 assigns the size. *)
CalcWriteSize_StatusFirst(w) ==
    LET wk == workers[w] IN
    /\ IsRunning(w) /\ wk.kind = "calc" /\ wk.pc = "wsize"
    /\ Step([workers EXCEPT ![w].pc = "wcount"], queue,
            [items EXCEPT ![wk.batch[wk.i]].status = IF ~stopped THEN Computed ELSE Cancelled],
            table)
    /\ UNCHANGED <<fsys, view, dstfs, stopped, nstarted, current_worker, ui>>

(* Lines 81-83: three separate assignments to the shared FileItem. *)
CalcWriteSize(w) ==
    LET wk == workers[w] IN
    /\ IsRunning(w) /\ wk.kind = "calc" /\ wk.pc = "wsize"
    /\ Step([workers EXCEPT ![w].pc = "wcount"], queue,
            [items EXCEPT ![wk.batch[wk.i]].size = wk.total_size], table)
    /\ UNCHANGED <<fsys, view, dstfs, stopped, nstarted, current_worker, ui>>

CalcWriteCount(w) ==
    LET wk == workers[w] IN
    /\ IsRunning(w) /\ wk.kind = "calc" /\ wk.pc = "wcount"
    /\ Step([workers EXCEPT ![w].pc = "wstatus"], queue,
            [items EXCEPT ![wk.batch[wk.i]].file_count = wk.file_count], table)
    /\ UNCHANGED <<fsys, view, dstfs, stopped, nstarted, current_worker, ui>>

StatusAfterWalk == IF ~stopped THEN Computed ELSE Cancelled

CalcWriteStatus(w) ==
    LET wk == workers[w] IN
    /\ IsRunning(w) /\ wk.kind = "calc" /\ wk.pc = "wstatus"
    /\ Step([workers EXCEPT ![w] = [NextEntry(wk) EXCEPT !.stop_seen =
                                        IF stopped THEN SeenAt(wk) ELSE wk.stop_seen]],
            CalcProgress(w, wk),
            [items EXCEPT ![wk.batch[wk.i]].status = StatusAfterWalk], table)
    /\ UNCHANGED <<fsys, view, dstfs, stopped, nstarted, current_worker, ui>>

(* BackupWorker.run / FileScanner.backup_directories / _copy_with_progress *)

(* What shutil.copytree(src, target, symlinks=True) copies, in order: the  *)
(* files of each directory, a symbolic link to a directory as a link.      *)
RECURSIVE CopyList(_), CopyAll(_)

(* A variant that copies the files of the top directory only. *)
CopyList_TopOnly(t) == t.files

CopyList(t) ==
    IF t.kind = "bad" THEN << [kind |-> "bad", size |-> 0, lsize |-> 0] >>
    ELSE t.files \o CopyAll(t.dirs)

CopyAll(ds) ==
    IF ds = <<>> THEN <<>>
    ELSE (IF Head(ds).kind = "dirlink" THEN << Link(0, 1) >> ELSE CopyList(Head(ds)))
         \o CopyAll(Tail(ds))

Written(kind, n) == [kind |-> kind, size |-> n]

BackupFinished(w, wk, ok) ==
    Step([workers EXCEPT ![w] = Finished],
         Append(queue, Ev("backup_finished", w, 0, Bool(ok), 0, 0, 0, 0)),
         items, table)

(* backup_directories line 109 *)
BackupBegin(w) ==
    /\ IsRunning(w) /\ workers[w].kind = "backup" /\ workers[w].pc = "begin"
    /\ stopped' = FALSE
    /\ workers' = [workers EXCEPT ![w].pc = "src", ![w].i = 1]
    /\ UNCHANGED <<fsys, view, dstfs, items, table, nstarted, current_worker, ui, queue>>

(* A variant of copytree that accepts an existing target. *)
TargetExists_Accepted(name) == FALSE

(* copytree's os.makedirs(target) raises FileExistsError when the target   *)
(* exists (copytree is called without dirs_exist_ok).                      *)
TargetExists(name) == dstfs[name].exists

(* The head of the loop over the sources (lines 112-119) and copytree's    *)
(* os.makedirs(target), which raises when the target exists; after the     *)
(* last source, `return not self.stopped'.                                 *)
BackupSrc(w) ==
    LET wk == workers[w]
        name == wk.srcs[wk.i][2]
    IN
    /\ IsRunning(w) /\ wk.kind = "backup" /\ wk.pc = "src"
    /\ IF wk.i > Len(wk.srcs)
       THEN BackupFinished(w, wk, ~stopped) /\ dstfs' = dstfs
       ELSE IF stopped
       THEN BackupFinished(w, wk, FALSE) /\ dstfs' = dstfs
       ELSE IF TargetExists(name)
       THEN BackupFinished(w, wk, FALSE) /\ dstfs' = dstfs
       ELSE /\ Step([workers EXCEPT ![w].pc = "copy", ![w].f = 1, ![w].errors = FALSE],
                    queue, items, table)
            /\ dstfs' = [dstfs EXCEPT ![name] = Created(<<>>)]
    /\ UNCHANGED <<fsys, view, stopped, nstarted, current_worker, ui>>

(* A variant of copytree that drops the errors it has collected. *)
CopytreeRaises_Never(wk) == FALSE

(* shutil.copytree after its last entry: it raises shutil.Error when it    *)
(* has collected an OSError, and backup_directories returns False.         *)
CopytreeRaises(wk) == wk.errors

(* copytree at its next entry: a link is replicated, a regular file goes   *)
(* to _copy_with_progress (which opens the destination file), an OSError   *)
(* is collected and raised as shutil.Error after the last entry.           *)
BackupEntry(w) ==
    LET wk == workers[w]
        name == wk.srcs[wk.i][2]
        list == CopyList(TreeAt(fsys, wk.srcs[wk.i]))
        e == list[wk.f]
    IN
    /\ IsRunning(w) /\ wk.kind = "backup" /\ wk.pc = "copy"
    /\ IF wk.f > Len(list)
       THEN IF CopytreeRaises(wk)
            THEN BackupFinished(w, wk, FALSE) /\ dstfs' = dstfs
            ELSE /\ Step([workers EXCEPT ![w].pc = "src", ![w].i = wk.i + 1, ![w].f = 0],
                         queue, items, table)
                 /\ dstfs' = dstfs
       ELSE IF e.kind = "bad"
       THEN BackupFinished(w, wk, FALSE) /\ dstfs' = dstfs
       ELSE IF e.kind = "nostat"
       THEN /\ Step([workers EXCEPT ![w].f = wk.f + 1, ![w].errors = TRUE],
                    queue, items, table)
            /\ dstfs' = dstfs
       ELSE IF e.kind = "link"
       THEN /\ Step([workers EXCEPT ![w].f = wk.f + 1], queue, items, table)
            /\ dstfs' = [dstfs EXCEPT ![name].files = Append(@, Written("link", e.lsize))]
       ELSE /\ Step([workers EXCEPT ![w].pc = "chunk", ![w].copied = 0],
                    queue, items, table)
            /\ dstfs' = [dstfs EXCEPT ![name].files = Append(@, Written("reg", 0))]
    /\ UNCHANGED <<fsys, view, stopped, nstarted, current_worker, ui>>

Min(a, b) == IF a < b THEN a ELSE b

(* progress_callback(current_file, current, total, speed) receives         *)
(* callback(src, current, total, copied) and emits                         *)
(* progress(current_file, current, total, speed, 0).                       *)
BackupProgress(w, wk, copied) ==
    Append(queue, Ev("backup_progress", w, 0, "none", wk.i, Len(wk.srcs), copied, 0))

(* One round of _copy_with_progress's loop (lines 166-178): the stopped    *)
(* check, then one read of at most 8192 bytes.                             *)
BackupChunk(w) ==
    LET wk == workers[w]
        name == wk.srcs[wk.i][2]
        e == CopyList(TreeAt(fsys, wk.srcs[wk.i]))[wk.f]
        n == Min(ChunkSize, e.size - wk.copied)
        last == Len(dstfs[name].files)
    IN
    /\ IsRunning(w) /\ wk.kind = "backup" /\ wk.pc = "chunk"
    /\ IF stopped
       THEN BackupFinished(w, wk, FALSE) /\ dstfs' = dstfs
       ELSE IF n = 0
       THEN /\ Step([workers EXCEPT ![w].pc = "copy", ![w].f = wk.f + 1, ![w].copied = 0],
                    queue, items, table)
            /\ dstfs' = dstfs
       ELSE /\ Step([workers EXCEPT ![w].copied = wk.copied + n],
                    BackupProgress(w, wk, wk.copied + n), items, table)
            /\ dstfs' = [dstfs EXCEPT ![name].files[last].size = @ + n]
    /\ UNCHANGED <<fsys, view, stopped, nstarted, current_worker, ui>>

----------------------------------------------------------------------------
UIStep ==
    \/ \E path \in ScanPaths : _scan_directory(path)
    \/ calculate_selected
    \/ \E row \in 1..Len(table) : _calculate_single_item(row)
    \/ backup_directory
    \/ \E state \in BOOLEAN : _on_select_all_changed(state)
    \/ stop_scan
    \/ StartResume
    \/ StopResume
    \/ Deliver
    \/ _update_ui

WorkerStep(w) ==
    \/ ScanBegin(w)
    \/ ScanGen(w)
    \/ ScanYielded(w)
    \/ ScanFinish(w)
    \/ CalcLoop(w)
    \/ CalcWalk(w)
    \/ CalcFile(w)
    \/ CalcWriteSize(w)
    \/ CalcWriteCount(w)
    \/ CalcWriteStatus(w)
    \/ BackupBegin(w)
    \/ BackupSrc(w)
    \/ BackupEntry(w)
    \/ BackupChunk(w)

Next ==
    \/ UIStep
    \/ \E w \in WorkerIds : WorkerStep(w)

Spec == Init /\ [][Next]_vars

----------------------------------------------------------------------------
(* The aggregator on every drawn tree: the state after root "A" has been   *)
(* scanned by the workers before the last one, its two entries added to    *)
(* the table and checked; from there one calculation (of the checked       *)
(* entries or of a single row), stop requests and deliveries.              *)

InitAgg ==
    /\ \E t \in Trees : fsys = DrawnFS(t)
    /\ dstfs = [n \in Names |-> Absent]
    /\ stopped = FALSE
    /\ items = [i \in ItemIds |->
                   IF i = 1 THEN [NewItem("A", "t") EXCEPT !.checked = TRUE]
                   ELSE IF i = 2 THEN [NewItem("A", "a2") EXCEPT !.checked = TRUE]
                   ELSE NoItem]
    /\ table = <<1, 2>>
    /\ workers = [w \in WorkerIds |-> IF w < MaxWorkers THEN Finished ELSE NoWorker]
    /\ nstarted = MaxWorkers - 1
    /\ current_worker = 0
    /\ ui = Idle
    /\ queue = <<>>
    /\ view = InitView

CalcStep(w) ==
    \/ CalcLoop(w)
    \/ CalcWalk(w)
    \/ CalcFile(w)
    \/ CalcWriteSize(w)
    \/ CalcWriteCount(w)
    \/ CalcWriteStatus(w)

NextAgg ==
    \/ calculate_selected
    \/ \E row \in 1..Len(table) : _calculate_single_item(row)
    \/ stop_scan
    \/ StopResume
    \/ Deliver
    \/ \E w \in WorkerIds : CalcStep(w)

SpecAgg == InitAgg /\ [][NextAgg]_vars

----------------------------------------------------------------------------
(* The whole program from the moment a first scan of root "A" has shown    *)
(* and the user has checked both rows, the ScanWorker has returned and its *)
(* finished signal is still queued; entry "t" is any tree of one           *)
(* directory.  Two more workers can be started, scans and calculations.    *)

FirstScan == MaxWorkers - 2

InitRerun ==
    /\ \E t \in TreesOf(1) : fsys = DrawnFS(t)
    /\ dstfs = [n \in Names |-> Absent]
    /\ stopped = FALSE
    /\ items = [i \in ItemIds |->
                   IF i = 1 THEN [NewItem("A", "t") EXCEPT !.checked = TRUE]
                   ELSE IF i = 2 THEN [NewItem("A", "a2") EXCEPT !.checked = TRUE]
                   ELSE NoItem]
    /\ table = <<1, 2>>
    /\ workers = [w \in WorkerIds |-> IF w <= FirstScan THEN Finished ELSE NoWorker]
    /\ nstarted = FirstScan
    /\ current_worker = FirstScan
    /\ ui = Idle
    /\ queue = << Ev("scan_finished", FirstScan, 0, "true", 0, 0, 0, 0) >>
    /\ view = InitView

ScanStep(w) ==
    \/ ScanBegin(w)
    \/ ScanGen(w)
    \/ ScanYielded(w)
    \/ ScanFinish(w)

NextRerun ==
    \/ \E path \in ScanPaths : _scan_directory(path)
    \/ calculate_selected
    \/ \E row \in 1..Len(table) : _calculate_single_item(row)
    \/ stop_scan
    \/ StartResume
    \/ StopResume
    \/ Deliver
    \/ \E w \in WorkerIds : ScanStep(w) \/ CalcStep(w)

SpecRerun == InitRerun /\ [][NextRerun]_vars

----------------------------------------------------------------------------
(* The size column on drawn sizes: root "A" has been scanned, row 1 holds  *)
(* a computed entry of any size of Sizes (the files have gone since) and   *)
(* row 2 an entry not computed yet; the view paints the cells.             *)

MaxScale == 5

Below1024 == {0, 1, 5, 128, 384, 512, 1019, 1023}

Mantissas ==
    Below1024
    \cup {1024 * a + b : a \in {1, 2, 1023}, b \in Below1024}
    \cup {1024 * 1024 * a + 1024 * b : a \in {1, 2}, b \in Below1024}

Sizes ==
    {[m |-> m, scale |-> 0] : m \in Mantissas}
    \cup {[m |-> m, scale |-> e] : m \in (Below1024 \ {0}) \cup {1024 + b : b \in Below1024},
                                  e \in 1..MaxScale}

InitFmt ==
    /\ fsys = DrawnFS(Dir(<<>>, <<>>))
    /\ dstfs = [n \in Names |-> Absent]
    /\ stopped = FALSE
    /\ \E sz \in Sizes :
          items = [i \in ItemIds |->
                      IF i = 1 THEN [NewItem("A", "t") EXCEPT !.size = sz.m,
                                                              !.scale = sz.scale,
                                                              !.file_count = 1,
                                                              !.status = Computed]
                      ELSE IF i = 2 THEN NewItem("A", "a2")
                      ELSE NoItem]
    /\ table = <<1, 2>>
    /\ workers = [w \in WorkerIds |-> IF w < MaxWorkers THEN Finished ELSE NoWorker]
    /\ nstarted = MaxWorkers - 1
    /\ current_worker = 0
    /\ ui = Idle
    /\ queue = <<>>
    /\ view = InitView

NextFmt == \E row \in 1..Len(table) : data(row)

SpecFmt == InitFmt /\ [][NextFmt]_vars

----------------------------------------------------------------------------
(* The copy engine on every drawn tree: as above, root "A" has been        *)
(* scanned and its two entries checked; the second one holds a file of     *)
(* three chunks.  From there one backup, stop requests and deliveries.     *)

BigFile == Reg(2 * ChunkSize + 1)

CopyFS(t) ==
    [r \in {"A"} |-> << DirEntry("t", t), DirEntry("a2", Dir(<<BigFile>>, <<>>)) >>]

InitCopy ==
    /\ \E t \in Trees : fsys = CopyFS(t)
    /\ dstfs = [n \in Names |-> Absent]
    /\ stopped = FALSE
    /\ items = [i \in ItemIds |->
                   IF i = 1 THEN [NewItem("A", "t") EXCEPT !.checked = TRUE]
                   ELSE IF i = 2 THEN [NewItem("A", "a2") EXCEPT !.checked = TRUE]
                   ELSE NoItem]
    /\ table = <<1, 2>>
    /\ workers = [w \in WorkerIds |-> IF w < MaxWorkers THEN Finished ELSE NoWorker]
    /\ nstarted = MaxWorkers - 1
    /\ current_worker = 0
    /\ ui = Idle
    /\ queue = <<>>
    /\ view = InitView

BackupStep(w) ==
    \/ BackupBegin(w)
    \/ BackupSrc(w)
    \/ BackupEntry(w)
    \/ BackupChunk(w)

NextCopy ==
    \/ backup_directory
    \/ stop_scan
    \/ StopResume
    \/ Deliver
    \/ \E w \in WorkerIds : BackupStep(w)

SpecCopy == InitCopy /\ [][NextCopy]_vars

----------------------------------------------------------------------------
(* A repeated backup: as for the copy engine, with two backups of the      *)
(* checked rows to the same destination.                                   *)

InitRecopy ==
    /\ \E t \in Trees : fsys = CopyFS(t)
    /\ dstfs = [n \in Names |-> Absent]
    /\ stopped = FALSE
    /\ items = [i \in ItemIds |->
                   IF i = 1 THEN [NewItem("A", "t") EXCEPT !.checked = TRUE]
                   ELSE IF i = 2 THEN [NewItem("A", "a2") EXCEPT !.checked = TRUE]
                   ELSE NoItem]
    /\ table = <<1, 2>>
    /\ workers = [w \in WorkerIds |-> IF w <= FirstScan THEN Finished ELSE NoWorker]
    /\ nstarted = FirstScan
    /\ current_worker = 0
    /\ ui = Idle
    /\ queue = <<>>
    /\ view = InitView

NextRecopy ==
    \/ backup_directory
    \/ stop_scan
    \/ StartResume
    \/ StopResume
    \/ Deliver
    \/ \E w \in WorkerIds : BackupStep(w)

SpecRecopy == InitRecopy /\ [][NextRecopy]_vars

----------------------------------------------------------------------------
(* Properties *)

Running == {w \in WorkerIds : IsRunning(w)}

(* The step in which worker w's run() returns. *)
Finishes(w) == IsRunning(w) /\ workers'[w].st = "finished"

LastEv(q) == q[Len(q)]

(* C1: at most one worker thread is running at any time. *)
C1_SingleFlight == Cardinality(Running) <= 1

(* C2: when a submission has waited for the running worker and starts the  *)
(* new one, the worker waited for has reported finished(False).            *)
C2_PreemptedReportsFailure ==
    [][(ui.pc = "start_wait" /\ ui'.pc = "idle")
       => \E k \in 1..Len(queue) :
            /\ queue[k].w = current_worker
            /\ queue[k].sig \in {"scan_finished", "backup_finished", "calc_finished"}
            /\ queue[k].ok = "false"]_vars

(* C3: a calculate worker that no stop was requested of while it ran       *)
(* processes every entry of its batch before it finishes.                  *)
C3_StaleStopIgnored ==
    [][\A w \in WorkerIds :
         (workers[w].kind = "calc" /\ Finishes(w) /\ ~workers[w].stop_req)
         => workers[w].i > Len(workers[w].batch)]_vars

(* C4: an entry whose status is Cancelled has size and file_count unset.   *)
C4_CancelledLeavesUnset ==
    \A i \in ItemIds :
        items[i].status = Cancelled
        => items[i].size = None /\ items[i].file_count = None

(* C5: a scan or backup worker of which a stop was requested while it ran  *)
(* completes with finished(False).                                         *)
C5_StopNeverLost ==
    [][\A w \in WorkerIds :
         (workers[w].kind \in {"scan", "backup"} /\ Finishes(w) /\ workers[w].stop_req)
         => LastEv(queue').w = w /\ LastEv(queue').ok = "false"]_vars

(* C6: the status of an entry changes only from NotComputed to Computed,   *)
(* Cancelled or Error, or back to NotComputed.                             *)
C6_StatusTransitions ==
    [][\A i \in ItemIds :
         (Live(i) /\ items'[i].status # "free" /\ items'[i].status # items[i].status)
         => \/ items[i].status = NotComputed
            \/ items'[i].status = NotComputed]_vars

(* C7: every FileItem has size and file_count both unset or both set.      *)
C7_BothOrNeither ==
    \A i \in ItemIds :
        Live(i) => ((items[i].size = None) <=> (items[i].file_count = None))

(* What an aggregation of tree t is to yield: F summed over the files of   *)
(* t and of the directories below it, at every nesting level (a symbolic   *)
(* link to a directory is not part of the tree); m names the measure.      *)
RegBytes == "RegBytes"
RegOne == "RegOne"
StatBytes == "StatBytes"
StatOne == "StatOne"
LinkOne == "LinkOne"
OwnBytes == "OwnBytes"
NoStatOne == "NoStatOne"

Weigh(m, f) ==
    CASE m = RegBytes -> IF f.kind = "reg" THEN f.size ELSE 0
      [] m = RegOne -> IF f.kind = "reg" THEN 1 ELSE 0
      [] m = StatBytes -> IF f.kind \in {"reg", "link"} THEN f.size ELSE 0
      [] m = StatOne -> IF f.kind \in {"reg", "link"} THEN 1 ELSE 0
      [] m = LinkOne -> IF f.kind = "link" THEN 1 ELSE 0
      [] m = NoStatOne -> IF f.kind = "nostat" THEN 1 ELSE 0
      [] m = OwnBytes -> IF f.kind \in {"reg", "link"} THEN f.lsize ELSE 0

RECURSIVE SumFiles(_, _)
SumFiles(fs, m) == IF fs = <<>> THEN 0 ELSE Weigh(m, Head(fs)) + SumFiles(Tail(fs), m)

RECURSIVE TreeSum(_, _), ForestSum(_, _)
TreeSum(t, m) == SumFiles(t.files, m) + ForestSum(t.dirs, m)

ForestSum(ds, m) ==
    IF ds = <<>> THEN 0
    ELSE (IF Head(ds).kind = "dir" THEN TreeSum(Head(ds), m) ELSE 0)
         + ForestSum(Tail(ds), m)

RECURSIVE HasBad(_), AnyBad(_)
HasBad(t) == t.kind = "bad" \/ AnyBad(t.dirs)
AnyBad(ds) == ds # <<>> /\ (HasBad(Head(ds)) \/ AnyBad(Tail(ds)))

HasNoStat(t) == TreeSum(t, NoStatOne) > 0

RECURSIVE Depth(_), MaxDepth(_)
Depth(t) == 1 + MaxDepth(t.dirs)
MaxDepth(ds) ==
    IF ds = <<>> THEN 0
    ELSE LET a == IF Head(ds).kind = "dir" THEN Depth(Head(ds)) ELSE 0
             b == MaxDepth(Tail(ds))
         IN IF a > b THEN a ELSE b

ItemTree(i) == TreeAt(fsys, items[i].path)

Processed(i) == Live(i) /\ items[i].status # NotComputed

ComputedWithStatSums(i) ==
    /\ items[i].status = Computed
    /\ items[i].size = TreeSum(ItemTree(i), StatBytes)
    /\ items[i].file_count = TreeSum(ItemTree(i), StatOne)

C10_ErrorLeavesUnset ==
    \A i \in ItemIds :
        items[i].status = Error
        => items[i].size = None /\ items[i].file_count = None

(* Whether copying tree t meets an error: a file that cannot be stat'ed or *)
(* a directory at which the walk raises.                                   *)
HasCopyError(t) == \E k \in 1..Len(CopyList(t)) : CopyList(t)[k].kind \in {"bad", "nostat"}

BackupDone(k) == queue[k].sig = "backup_finished"

(* C11: an error while copying one source aborts the whole batch: no later *)
(* source is copied and the batch completes with success = false.          *)
C11_ErrorAbortsBatch ==
    HasCopyError(ItemTree(1))
    => /\ ~dstfs["a2"].exists
       /\ \A k \in 1..Len(queue) : BackupDone(k) => queue[k].ok = "false"

(* A batch of two sources has failed in the first one, part of which is    *)
(* copied, without any stop request.                                       *)
C11_Witness ==
    /\ HasCopyError(ItemTree(1))
    /\ ~stopped
    /\ dstfs["t"].exists /\ dstfs["t"].files # <<>>
    /\ ~dstfs["a2"].exists
    /\ \E k \in 1..Len(queue) : BackupDone(k) /\ queue[k].ok = "false"

(* C12: a backup that fails on an I/O error (no stop requested) posts an   *)
(* error event, which tells it from a cancelled one.                       *)
C12_FailureSurfaced ==
    [][\A w \in WorkerIds :
        (workers[w].kind = "backup" /\ Finishes(w) /\ ~stopped
         /\ LastEv(queue').ok = "false")
        => \E j \in 1..Len(queue') : queue'[j].sig = "error" /\ queue'[j].w = w]_vars

RECURSIVE CopiedBytes(_)
CopiedBytes(fs) ==
    IF fs = <<>> THEN 0
    ELSE (IF Head(fs).kind = "reg" THEN Head(fs).size ELSE 0) + CopiedBytes(Tail(fs))

CopiedLinks(fs) == Len(SelectSeq(fs, LAMBDA e : e.kind = "link"))

(* C13: once stop is set and the backup is past its first statement,       *)
(* nothing more is copied (no byte of a file, no link, no further source;  *)
(* the file being opened may be left empty) and the batch completes with   *)
(* success = false.                                                        *)
C13_StopHaltsCopy ==
    [][\A w \in WorkerIds :
        (workers[w].kind = "backup" /\ IsRunning(w) /\ workers[w].pc # "begin" /\ stopped)
        => /\ \A n \in Names :
                /\ dstfs'[n].exists = dstfs[n].exists
                /\ CopiedBytes(dstfs'[n].files) = CopiedBytes(dstfs[n].files)
                /\ CopiedLinks(dstfs'[n].files) = CopiedLinks(dstfs[n].files)
           /\ Finishes(w) => LastEv(queue').ok = "false"]_vars

(* C14: the table never holds entries of two different roots.              *)
C14_TableOneRoot ==
    \A k, l \in 1..Len(table) : items[table[k]].path[1] = items[table[l]].path[1]

FinishedSigs == {"scan_finished", "calc_finished", "backup_finished"}

C16_CancelReported ==
    [][\A w \in WorkerIds :
        (workers[w].kind = "calc" /\ Finishes(w))
        => LastEv(queue').ok =
              (IF stopped /\ workers[w].i <= Len(workers[w].batch) THEN "false" ELSE "true")]_vars

(* C17: a scan that has observed the cancellation and left its loop posts  *)
(* no further entry and no error, and completes with finished(False).      *)
C17_CancelledScanReportsFalse ==
    [][\A w \in WorkerIds :
        (workers[w].kind = "scan" /\ workers[w].pc = "fin" /\ Finishes(w))
        => /\ Len(queue') = Len(queue) + 1
           /\ LastEv(queue').sig = "scan_finished"
           /\ LastEv(queue').ok = "false"]_vars

(* C18: no ScanWorker is ever launched for a path that is not an existing  *)
(* directory.                                                              *)
C18_NoWorkerForBadPath ==
    \A w \in WorkerIds :
        workers[w].kind = "scan" => IsDirectory(workers[w].path)

(* C19: every entry a scan emits is a child directory of the scanned root, *)
(* with status NotComputed and size and file_count unset.                  *)
C19_EntriesFresh ==
    \A k \in 1..Len(queue) :
        queue[k].sig = "file_found"
        => LET it == items[queue[k].item] IN
           /\ it.path[1] \in DOMAIN fsys
           /\ \E e \in SeqRange(fsys[it.path[1]]) : IsDir(e) /\ e.name = it.path[2]
           /\ it.status = NotComputed
           /\ it.size = None
           /\ it.file_count = None

(* What calculate_directory_info leaves on an entry when no stop is        *)
(* requested: the files of every directory os.walk yields, each through    *)
(* the inner loop's body.                                                  *)
RECURSIVE CountAll(_, _)
CountAll(acc, fs) == IF fs = <<>> THEN acc ELSE CountAll(Counted(acc, Head(fs)), Tail(fs))

RECURSIVE CountWalk(_, _)
CountWalk(acc, visits) ==
    IF visits = <<>> THEN acc
    ELSE CountWalk(CountAll(acc, Head(visits).files), Tail(visits))

Aggregate(t) ==
    LET sums == CountWalk([total_size |-> 0, file_count |-> 0], Walk(t)) IN
    IF \E k \in 1..Len(Walk(t)) : Walk(t)[k].raises
    THEN [status |-> Error, size |-> None, file_count |-> 0]
    ELSE [status |-> Computed, size |-> sums.total_size, file_count |-> sums.file_count]

(* The copy of a source under the destination, as the walk sees it: the    *)
(* regular files written, with the bytes each one holds (a copied link     *)
(* points nowhere from its new place).                                     *)
DstFile(e) == IF e.kind = "reg" THEN Reg(e.size) ELSE NoStat

DstTree(name) ==
    Dir([k \in 1..Len(dstfs[name].files) |-> DstFile(dstfs[name].files[k])], <<>>)

RECURSIVE HasLinks(_), AnyLinks(_)
HasLinks(t) == t.kind = "dirlink" \/ TreeSum(t, LinkOne) > 0 \/ AnyLinks(t.dirs)
AnyLinks(ds) == ds # <<>> /\ (HasLinks(Head(ds)) \/ AnyLinks(Tail(ds)))

(* C20: after a successful backup, the aggregation of the copy of every    *)
(* source without symbolic links yields the size and file_count of the     *)
(* aggregation of the source.                                              *)
C20_CopyLossless ==
    \A k \in 1..Len(queue) :
        (BackupDone(k) /\ queue[k].ok = "true")
        => \A i \in SeqRange(CheckedItems) :
              ~HasLinks(ItemTree(i))
              => Aggregate(DstTree(items[i].name)) = Aggregate(ItemTree(i))

(* A backup has succeeded on a nested source with files and on the source  *)
(* with the file of three chunks.                                          *)
C20_Witness ==
    /\ \E k \in 1..Len(queue) : BackupDone(k) /\ queue[k].ok = "true"
    /\ ~HasLinks(ItemTree(1)) /\ Depth(ItemTree(1)) = 3
    /\ Aggregate(ItemTree(1)) = [status |-> Computed, size |-> 9, file_count |-> 3]
    /\ Aggregate(DstTree("a2")).size = 2 * ChunkSize + 1

----------------------------------------------------------------------------
(* C21 as stated: symbolic links are not followed during aggregation: the  *)
(* size of a completed entry whose tree has no access errors is the sum of *)
(* the own sizes of its files, a link to a file counting with the size of  *)
(* the link itself, and the files behind a link to a directory not         *)
(* counting at all.                                                        *)
C21_LinksNotFollowed ==
    \A i \in ItemIds :
        (Live(i) /\ items[i].status = Computed /\ ~HasNoStat(ItemTree(i)))
        => items[i].size = TreeSum(ItemTree(i), OwnBytes)

(* C22 as stated: the status, size and file_count of an entry have at most *)
(* one writer at a time: no two running calculate workers are inside the   *)
(* computation of the same entry.                                          *)
Computing(w, i) ==
    /\ IsRunning(w) /\ workers[w].kind = "calc"
    /\ workers[w].pc \in {"walk", "file", "wsize", "wcount", "wstatus"}
    /\ workers[w].batch[workers[w].i] = i

C22_ExclusiveWriter ==
    \A i \in ItemIds : Cardinality({w \in WorkerIds : Computing(w, i)}) <= 1

(* C23: a calculate batch processes its entries one after the other in     *)
(* input order and emits one progress event per processed entry: the       *)
(* worker's position moves only forward by one, it does so exactly in the  *)
(* step that emits the progress event of the entry it leaves, that event   *)
(* carries current = the position (1, 2, ...), total = the batch length    *)
(* and current <= total; the queue to the UI thread hands events over in   *)
(* the order they were emitted.                                            *)
EmitsProgress(w) ==
    /\ Len(queue') = Len(queue) + 1
    /\ LastEv(queue').sig = "calc_progress"
    /\ LastEv(queue').w = w

C23_SequentialProgress ==
    [][ /\ \A w \in WorkerIds :
              (IsRunning(w) /\ workers[w].kind = "calc") =>
              LET wk == workers[w] IN
              /\ (IsRunning(w)' /\ workers'[w].i # wk.i) => EmitsProgress(w)
              /\ (Finishes(w) /\ wk.pc # "loop") => EmitsProgress(w)
              /\ EmitsProgress(w) =>
                    /\ queue' = Append(queue, LastEv(queue'))
                    /\ LastEv(queue').cur = wk.i
                    /\ LastEv(queue').item = wk.batch[wk.i]
                    /\ LastEv(queue').tot = Len(wk.batch)
                    /\ LastEv(queue').cur >= 1
                    /\ LastEv(queue').cur <= LastEv(queue').tot
                    /\ workers'[w].i = wk.i + 1
        /\ Len(queue') < Len(queue) => queue' = Tail(queue)
      ]_vars

(* C23's case: the progress events of both entries of a batch of two are   *)
(* waiting in the queue, in order.                                         *)
C23_Witness ==
    /\ Len(queue) >= 2
    /\ queue[1].sig = "calc_progress" /\ queue[1].cur = 1 /\ queue[1].tot = 2
    /\ queue[2].sig = "calc_progress" /\ queue[2].cur = 2 /\ queue[2].w = queue[1].w
    /\ queue[2].item # queue[1].item

(* C24 as stated: every backup progress event carries in its byte-count    *)
(* field the bytes copied so far for the current file.                     *)
C24_ProgressCarriesBytes ==
    [][ \A w \in WorkerIds :
            ( /\ IsRunning(w) /\ workers[w].kind = "backup"
              /\ Len(queue') = Len(queue) + 1
              /\ LastEv(queue').sig = "backup_progress"
              /\ LastEv(queue').w = w )
            => LastEv(queue').nbytes = workers'[w].copied
      ]_vars

(* C27 as stated: while a worker is running the stop button is enabled and *)
(* the select button is disabled.                                          *)
C27_ButtonsFollowWorker ==
    Running # {} => (view.stop_btn /\ ~view.select_btn)

(* C26 as stated: whenever a worker thread is running, _current_worker     *)
(* refers to it.                                                           *)
C26_CurrentIsTheRunningWorker ==
    \A w \in Running : current_worker = w

(* C28 as stated: a scan that completes with finished(True) has listed its *)
(* root to the end and emitted every child directory: it did not leave     *)
(* either loop on a stop.                                                  *)
C28_SuccessMeansComplete ==
    [][\A w \in WorkerIds :
        ( /\ workers[w].kind = "scan" /\ Finishes(w)
          /\ LastEv(queue').sig = "scan_finished"
          /\ LastEv(queue').ok = "true" )
        => /\ workers[w].pc = "gen"
           /\ workers[w].i > Len(fsys[workers[w].path])]_vars

(* C29 as stated: once a calculate batch has observed a stop, no entry     *)
(* after the one it was processing is written: the thread is never past    *)
(* the assignment of size (line 81) for a later entry.                     *)
C29_LaterEntriesUntouched ==
    \A w \in WorkerIds :
        ( /\ IsRunning(w) /\ workers[w].kind = "calc"
          /\ workers[w].stop_seen # 0
          /\ workers[w].i > workers[w].stop_seen )
        => workers[w].pc \notin {"wcount", "wstatus"}

(* C30: in every reachable state, the intermediate states of a running or  *)
(* repeated computation included, an entry whose status is Computed has    *)
(* both size and file_count set.                                           *)
C30_ComputedHasValues ==
    \A i \in ItemIds :
        items[i].status = Computed
        => items[i].size # None /\ items[i].file_count # None

(* C30's case: an entry computed before is being computed again, its new   *)
(* size written and its new file_count and status not yet.                 *)
C30_Witness ==
    \E i \in ItemIds : \E w \in WorkerIds :
        /\ items[i].status = Computed
        /\ Computing(w, i)
        /\ workers[w].pc = "wcount"

----------------------------------------------------------------------------
(* C25: format_size of a set size m * 1024^e renders it with two decimals  *)
(* in the largest unit of B, KB, MB, GB, TB whose value does not exceed    *)
(* the size (B for 0), staying at TB from 1024^5 on: the unit is units[u]  *)
(* for the largest u <= 4 with 1024^u <= size, the number shown is the     *)
(* size divided by 1024^u to the nearest hundredth, and 0, 1024, 1536,     *)
(* 1024^4 give "0.00 B", "1.00 KB", "1.50 KB", "1.00 TB".                  *)
UnitFits(u, m, e) ==
    IF u <= e THEN m >= 1
    ELSE u - e <= 3 /\ m >= Pow1024(u - e)

LargestUnit(m, e) ==
    IF \E u \in 0..4 : UnitFits(u, m, e)
    THEN CHOOSE u \in 0..4 : UnitFits(u, m, e) /\ \A v \in (u + 1)..4 : ~UnitFits(v, m, e)
    ELSE 0

Abs(n) == IF n < 0 THEN -n ELSE n

Text(w, c, u) == [whole |-> w, cents |-> c, unit |-> u]

SizeIs(m, e) == items[1].size = m /\ items[1].scale = e

C25_FormatSize ==
    LET t == view.size_text
        m == items[1].size
        e == items[1].scale
        u == LargestUnit(m, e)
    IN (t # NoText /\ t # NotCalculatedText) =>
       /\ t.unit = units[u + 1]
       /\ t.cents \in 0..99
       /\ IF e >= u
          THEN t.whole = m * Pow1024(e - u) /\ t.cents = 0
          ELSE Abs((100 * t.whole + t.cents) * Pow1024(u - e) - 100 * m)
                  <= Pow1024(u - e) \div 2
       /\ SizeIs(0, 0) => t = Text(0, 0, "B")
       /\ (SizeIs(1024, 0) \/ SizeIs(1, 1)) => t = Text(1, 0, "KB")
       /\ SizeIs(1536, 0) => t = Text(1, 50, "KB")
       /\ SizeIs(1, 4) => t = Text(1, 0, "TB")
       /\ SizeIs(1, 5) => t = Text(1024, 0, "TB")

(* C25's case: the cell of an entry of 1024^4 bytes has been painted.      *)
C25_Witness ==
    SizeIs(1, 4) /\ view.size_text = Text(1, 0, "TB")

----------------------------------------------------------------------------
(* C31: when a backup reaches a source whose target directory already      *)
(* exists under the destination, the batch ends at once with               *)
(* finished(False): the step in which the worker leaves the head of its    *)
(* loop is the one in which run() returns, it posts finished(False) as the *)
(* last event, and it changes nothing under the destination, so neither    *)
(* the existing directory nor a later source is written.                   *)
C31_ExistingTargetAborts ==
    [][\A w \in WorkerIds :
        LET wk == workers[w] IN
        ( /\ IsRunning(w) /\ wk.kind = "backup" /\ wk.pc = "src"
          /\ wk.i <= Len(wk.srcs)
          /\ dstfs[wk.srcs[wk.i][2]].exists
          /\ workers'[w].pc # "src" )
        => /\ Finishes(w)
           /\ Len(queue') = Len(queue) + 1
           /\ LastEv(queue') = Ev("backup_finished", w, 0, "false", 0, 0, 0, 0)
           /\ dstfs' = dstfs]_vars

(* C31's case: a first backup has copied both sources, and a second one to *)
(* the same destination, which no stop was requested of, has finished with *)
(* finished(False) and left the copies as they were.                       *)
C31_Witness ==
    /\ nstarted = MaxWorkers
    /\ workers[MaxWorkers].st = "finished"
    /\ ~stopped
    /\ queue # <<>>
    /\ LastEv(queue) = Ev("backup_finished", MaxWorkers, 0, "false", 0, 0, 0, 0)
    /\ dstfs["t"].exists
    /\ dstfs["a2"] = Created(<< Written("reg", 2 * ChunkSize + 1) >>)

====
